---- MODULE Spec2Model ----
(***************************************************************************)
(* hostel_pulse: the balance score, the achievement evaluation and the     *)
(* daily streak of accounts/data_sync_service.py, over the three MongoDB   *)
(* collections of accounts/mongodb_models.py, for one user (every query of *)
(* the code is keyed by user_id, so users do not interact).                *)
(* The pages and endpoints of accounts/views.py call them and keep the     *)
(* suggestion cache in the browser session.                                *)
(*                                                                         *)
(* Values.  A dict field is a record [t, v]: t = "absent" (no such key),   *)
(* t = "none" (Python None) or t = "val" (v is the value).  sleep_hours is  *)
(* held in tenths of an hour (get_sleep_data rounds to one decimal); a     *)
(* time of day "HH:MM" is held as the number HHMM, so "07:30" is 730 and   *)
(* int(s.split(':')[0]) is HHMM \div 100.  Dates and timestamps are held   *)
(* as the number of the calendar day.  A collection is the set of its      *)
(* documents; an optional document is a set of at most one element.        *)
(***************************************************************************)
EXTENDS Integers, Sequences, FiniteSets, TLC

VARIABLES
    day,           \* the calendar day datetime.now() falls on
    wellness,      \* collection user_wellness_data (this user's documents)
    achievements,  \* collection user_achievements
    streak,        \* collection daily_streaks
    call,          \* the last call made: its inputs and what it returned
    procs,         \* concurrent syncs inside update_streak: position and locals
    session,       \* request.session of the user's browser session (views.py)
    obs            \* observations over the run (history variables)

vars == <<day, wellness, achievements, streak, call, procs, session, obs>>

----------------------------------------------------------------------------
(* Python values *)

Absent == [t |-> "absent", v |-> 0]
None == [t |-> "none", v |-> 0]
Val(n) == [t |-> "val", v |-> n]

\* d.get(key, default): the default only when the key is absent
dict_get(d, key, default) == IF d[key].t = "absent" THEN default ELSE d[key]

\* d.get(key): None when the key is absent
dict_get_none(d, key) == dict_get(d, key, None)

\* truth value of a number or None, of a string or None
Truthy(x) == x.t = "val" /\ x.v # 0

Max(a, b) == IF a >= b THEN a ELSE b
Min(a, b) == IF a <= b THEN a ELSE b

----------------------------------------------------------------------------
(* calculate_balance_score *)

BASE_SCORE == 50

score_sleep(wellness_data) ==
    LET sleep_hours == dict_get(wellness_data, "sleep_hours", Val(0))
    IN  IF ~Truthy(sleep_hours) THEN 0
        ELSE IF 70 <= sleep_hours.v /\ sleep_hours.v <= 90 THEN 30
        ELSE IF 60 <= sleep_hours.v /\ sleep_hours.v <= 100 THEN 15
        ELSE -10

score_steps(wellness_data) ==
    LET step_count == dict_get(wellness_data, "step_count", Val(0))
    IN  IF step_count.v >= 10000 THEN 25
        ELSE IF step_count.v >= 5000 THEN 15
        ELSE IF step_count.v >= 2000 THEN 5
        ELSE 0

\* a faulty variant: attended // total, the rate is 1 or 0
score_classes_floor(wellness_data) ==
    LET classes_total == dict_get(wellness_data, "classes_total", Val(0))
        classes_attended == dict_get(wellness_data, "classes_attended", Val(0))
    IN  IF classes_total.v > 0 /\ classes_attended.v >= classes_total.v THEN 25 ELSE 0

\* attended / total >= 0.9, 0.7, 0.5 on floats, decided on the integers
score_classes(wellness_data) ==
    LET classes_total == dict_get(wellness_data, "classes_total", Val(0))
        classes_attended == dict_get(wellness_data, "classes_attended", Val(0))
    IN  IF classes_total.v > 0
        THEN IF 10 * classes_attended.v >= 9 * classes_total.v THEN 25
             ELSE IF 10 * classes_attended.v >= 7 * classes_total.v THEN 15
             ELSE IF 10 * classes_attended.v >= 5 * classes_total.v THEN 5
             ELSE 0
        ELSE 0

score_active(wellness_data) ==
    LET active_minutes == dict_get(wellness_data, "active_minutes", Val(0))
    IN  IF active_minutes.v >= 30 THEN 20
        ELSE IF active_minutes.v >= 15 THEN 10
        ELSE 0

\* None >= 10000, None > 0, None / n, None >= 30 raise TypeError
score_raises(wellness_data) ==
    LET step_count == dict_get(wellness_data, "step_count", Val(0))
        classes_total == dict_get(wellness_data, "classes_total", Val(0))
        classes_attended == dict_get(wellness_data, "classes_attended", Val(0))
        active_minutes == dict_get(wellness_data, "active_minutes", Val(0))
    IN  \/ step_count.t = "none"
        \/ classes_total.t = "none"
        \/ classes_total.v > 0 /\ classes_attended.t = "none"
        \/ active_minutes.t = "none"

\* [raised, value]: the exception, or the int returned
calculate_balance_score(wellness_data) ==
    IF score_raises(wellness_data)
    THEN [raised |-> TRUE, value |-> 0]
    ELSE [raised |-> FALSE,
          value |-> Min(100, Max(0, BASE_SCORE + score_sleep(wellness_data)
                                    + score_steps(wellness_data)
                                    + score_classes(wellness_data)
                                    + score_active(wellness_data)))]

----------------------------------------------------------------------------
(* mongodb_models.py: the collections.  Fields the code never reads back   *)
(* in its logic (name, description, icon, sleep_quality, mood, created_at, *)
(* updated_at) are left out of the documents.                              *)

ACHIEVEMENTS ==
    <<"early_bird", "step_master", "study_buddy", "zen_master",
      "night_owl_recovery", "fitness_streak", "perfect_week">>

ACHIEVEMENT_IDS == {ACHIEVEMENTS[i] : i \in 1..Len(ACHIEVEMENTS)}

WELLNESS_FIELDS ==
    {"sleep_hours", "bedtime", "waketime", "step_count", "active_minutes",
     "classes_attended", "classes_total", "balance_score"}

\* document = {...: data.get(field) ...}; update_one({user_id, date}, {$set: document}, upsert=True)
save_wellness_data(coll, data, now) ==
    LET date == IF data.date.t = "absent" THEN now ELSE data.date.v
        document == [f \in WELLNESS_FIELDS \cup {"date"} |->
                        IF f = "date" THEN Val(date) ELSE dict_get_none(data, f)]
    IN  {d \in coll : d.date.v # date} \cup {document}

\* find_one({user_id, date}) with date = today
get_wellness_data(coll, now) == {d \in coll : d.date.v = now}

\* the first `limit` dates, latest first
RECURSIVE dates_desc(_, _)
dates_desc(dates, limit) ==
    IF dates = {} \/ limit = 0 THEN <<>>
    ELSE LET top == CHOOSE d \in dates : \A e \in dates : e <= d
         IN  <<top>> \o dates_desc(dates \ {top}, limit - 1)

\* find({user_id}).sort('date', -1).limit(days); one document per date
get_wellness_history(coll, days) ==
    LET order == dates_desc({d.date.v : d \in coll}, days)
    IN  [i \in 1..Len(order) |-> CHOOSE d \in coll : d.date.v = order[i]]

new_achievement(achievement_id) ==
    [achievement_id |-> achievement_id, unlocked |-> FALSE,
     unlocked_date |-> None, progress |-> 0]

\* a faulty variant: $set in place of $setOnInsert
init_achievement_set(coll, achievement_id) ==
    {a \in coll : a.achievement_id # achievement_id}
    \cup {new_achievement(achievement_id)}

\* a faulty variant: insert_one, whether or not the document exists
init_achievement_insert(coll, achievement_id) ==
    coll \cup {new_achievement(achievement_id)}

\* one update_one(..., {$setOnInsert: ...}, upsert=True) of initialize_user_achievements
init_achievement(coll, achievement_id) ==
    IF \E a \in coll : a.achievement_id = achievement_id
    THEN coll
    ELSE coll \cup {new_achievement(achievement_id)}

\* update_one({user_id, achievement_id}, {$set: {unlocked: True, unlocked_date: now}})
unlock_achievement(coll, achievement_id, now) ==
    {IF a.achievement_id = achievement_id
     THEN [a EXCEPT !.unlocked = TRUE, !.unlocked_date = Val(now)]
     ELSE a : a \in coll}

\* update_one({user_id, achievement_id}, {$set: {progress: progress}})
update_achievement_progress(coll, achievement_id, progress) ==
    {IF a.achievement_id = achievement_id
     THEN [a EXCEPT !.progress = progress]
     ELSE a : a \in coll}

\* find_one({user_id})
get_user_streak(coll) == coll

current_of(coll) == IF coll = {} THEN 0 ELSE (CHOOSE s \in coll : TRUE).current_streak
longest_of(coll) == IF coll = {} THEN 0 ELSE (CHOOSE s \in coll : TRUE).longest_streak

\* a faulty variant: {$inc: {current_streak: 1}} in place of {$set: {current_streak: ...}}
update_user_streak_inc(coll, current_streak, longest_streak, now) ==
    {[current_streak |-> current_of(coll) + 1,
      longest_streak |-> Max(longest_of(coll), current_of(coll) + 1),
      last_sync_date |-> now]}

\* update_one({user_id}, {$set: update_data}, upsert=True), longest_streak given
update_user_streak(coll, current_streak, longest_streak, now) ==
    {[current_streak |-> current_streak, longest_streak |-> longest_streak,
      last_sync_date |-> now]}

----------------------------------------------------------------------------
(* A call's view of the store.  ctx = [wellness, achievements, streak, n,   *)
(* raised]: the collections, how many times the call has used each store   *)
(* function, and whether an exception is propagating.  fail names the      *)
(* store operation of the call that raises (a PersistenceFailure): the     *)
(* nth use of one store function; NoFailure is none.                       *)

STORE_FUNCTIONS ==
    {"save_wellness_data", "initialize_user_achievements", "get_wellness_history",
     "update_achievement_progress", "unlock_achievement", "get_user_streak",
     "update_user_streak"}

new_ctx(w, a, s) ==
    [wellness |-> w, achievements |-> a, streak |-> s,
     n |-> [f \in STORE_FUNCTIONS |-> 0], raised |-> FALSE]

NoFailure == [fn |-> "none", nth |-> 0]

\* one store operation: skipped while an exception propagates, raising when
\* it is the one `fail` names, and otherwise leaving the store as in `after`
Op(ctx, fail, fn, after) ==
    IF ctx.raised THEN ctx
    ELSE IF fail.fn = fn /\ ctx.n[fn] + 1 = fail.nth
         THEN [ctx EXCEPT !.raised = TRUE, !.n[fn] = @ + 1]
         ELSE [after EXCEPT !.n[fn] = ctx.n[fn] + 1]

Raise(ctx) == [ctx EXCEPT !.raised = TRUE]

RECURSIVE initialize_from(_, _, _)
initialize_from(ctx, fail, i) ==
    IF i > Len(ACHIEVEMENTS) THEN ctx
    ELSE initialize_from(
            Op(ctx, fail, "initialize_user_achievements",
               [ctx EXCEPT !.achievements = init_achievement(@, ACHIEVEMENTS[i])]),
            fail, i + 1)

\* for achievement_id in ACHIEVEMENTS: update_one(... $setOnInsert ..., upsert=True)
initialize_user_achievements(ctx, fail) == initialize_from(ctx, fail, 1)

----------------------------------------------------------------------------
(* The seven checks.  A check marks each day of the history "t" (the day   *)
(* counts), "f" (it does not) or "x" (evaluating it raises TypeError: an   *)
(* ordering comparison with None).                                         *)

\* the length of the leading run of "t", and whether an "x" ends it
RECURSIVE leading(_)
leading(marks) ==
    IF marks = <<>> THEN [n |-> 0, raised |-> FALSE]
    ELSE IF Head(marks) = "t"
         THEN LET r == leading(Tail(marks)) IN [r EXCEPT !.n = @ + 1]
         ELSE [n |-> 0, raised |-> Head(marks) = "x"]

first7(history) == SubSeq(history, 1, Min(Len(history), 7))

\* int(s.split(':')[0]) of "HH:MM"
hour_of(time) == time.v \div 100

\* for day in history: if waketime: (hour < 8: count, else: break)
RECURSIVE early_bird_days(_)
early_bird_days(history) ==
    IF history = <<>> THEN 0
    ELSE LET waketime == dict_get_none(Head(history), "waketime")
         IN  IF waketime.t = "val"
             THEN IF hour_of(waketime) < 8
                  THEN 1 + early_bird_days(Tail(history))
                  ELSE 0
             ELSE early_bird_days(Tail(history))

check_early_bird(ctx, history, fail, now) ==
    LET consecutive_days == early_bird_days(history)
        c1 == Op(ctx, fail, "update_achievement_progress",
                 [ctx EXCEPT !.achievements =
                    update_achievement_progress(@, "early_bird", consecutive_days)])
    IN  IF ctx.raised THEN ctx
        ELSE IF consecutive_days >= 5
        THEN Op(c1, fail, "unlock_achievement",
                [c1 EXCEPT !.achievements = unlock_achievement(@, "early_bird", now)])
        ELSE c1

step_master_marks(history) ==
    [i \in 1..Len(history) |->
        LET step_count == dict_get(history[i], "step_count", Val(0))
        IN  IF step_count.t = "none" THEN "x"
            ELSE IF step_count.v >= 10000 THEN "f" ELSE "t"]

\* a faulty variant: only the most recent day is looked at
check_step_master_first(ctx, history, fail, now) ==
    LET below == leading(step_master_marks(SubSeq(history, 1, 1)))
    IN  IF ctx.raised THEN ctx
        ELSE IF below.raised THEN Raise(ctx)
        ELSE IF below.n < 1
        THEN Op(ctx, fail, "unlock_achievement",
                [ctx EXCEPT !.achievements = unlock_achievement(@, "step_master", now)])
        ELSE ctx

\* for day in history: if step_count >= 10000: unlock; break
check_step_master(ctx, history, fail, now) ==
    LET below == leading(step_master_marks(history))
    IN  IF ctx.raised THEN ctx
        ELSE IF below.raised THEN Raise(ctx)
        ELSE IF below.n < Len(history)
        THEN Op(ctx, fail, "unlock_achievement",
                [ctx EXCEPT !.achievements = unlock_achievement(@, "step_master", now)])
        ELSE ctx

study_buddy_marks(history) ==
    [i \in 1..Len(history) |->
        LET classes_attended == dict_get(history[i], "classes_attended", Val(0))
            classes_total == dict_get(history[i], "classes_total", Val(0))
        IN  IF classes_attended # classes_total THEN "f"
            ELSE IF classes_total.t = "none" THEN "x"
            ELSE IF classes_total.v > 0 THEN "t" ELSE "f"]

\* a faulty variant: a day without classes counts as attended
check_study_buddy_any(ctx, history, fail, now) ==
    IF ctx.raised \/ Len(history) < 7 THEN ctx
    ELSE IF \A i \in 1..7 : history[i].classes_attended = history[i].classes_total
         THEN Op(ctx, fail, "unlock_achievement",
                 [ctx EXCEPT !.achievements = unlock_achievement(@, "study_buddy", now)])
         ELSE ctx

check_study_buddy(ctx, history, fail, now) ==
    IF ctx.raised \/ Len(history) < 7 THEN ctx
    ELSE LET perfect_attendance == leading(study_buddy_marks(first7(history)))
         IN  IF perfect_attendance.raised THEN Raise(ctx)
             ELSE IF perfect_attendance.n = 7
             THEN Op(ctx, fail, "unlock_achievement",
                     [ctx EXCEPT !.achievements =
                        unlock_achievement(@, "study_buddy", now)])
             ELSE ctx

\* field >= threshold on each day
at_least_marks(history, field, threshold) ==
    [i \in 1..Len(history) |->
        LET x == dict_get(history[i], field, Val(0))
        IN  IF x.t = "none" THEN "x"
            ELSE IF x.v >= threshold THEN "t" ELSE "f"]

\* a faulty variant: the progress is only ever raised
check_zen_master_keeps(ctx, history, fail, now) ==
    LET run == leading(at_least_marks(history, "balance_score", 80))
        consecutive_days ==
            Max(run.n, (CHOOSE a \in ctx.achievements :
                            a.achievement_id = "zen_master").progress)
        c1 == Op(ctx, fail, "update_achievement_progress",
                 [ctx EXCEPT !.achievements =
                    update_achievement_progress(@, "zen_master", consecutive_days)])
    IN  IF ctx.raised THEN ctx
        ELSE IF run.raised THEN Raise(ctx)
        ELSE IF consecutive_days >= 3
        THEN Op(c1, fail, "unlock_achievement",
                [c1 EXCEPT !.achievements = unlock_achievement(@, "zen_master", now)])
        ELSE c1

check_zen_master(ctx, history, fail, now) ==
    LET run == leading(at_least_marks(history, "balance_score", 80))
        consecutive_days == run.n
        c1 == Op(ctx, fail, "update_achievement_progress",
                 [ctx EXCEPT !.achievements =
                    update_achievement_progress(@, "zen_master", consecutive_days)])
    IN  IF ctx.raised THEN ctx
        ELSE IF run.raised THEN Raise(ctx)
        ELSE IF consecutive_days >= 3
        THEN Op(c1, fail, "unlock_achievement",
                [c1 EXCEPT !.achievements = unlock_achievement(@, "zen_master", now)])
        ELSE c1

\* for day in history: if bedtime: (hour < 23: count, else: break)
RECURSIVE night_owl_days(_)
night_owl_days(history) ==
    IF history = <<>> THEN 0
    ELSE LET bedtime == dict_get_none(Head(history), "bedtime")
         IN  IF bedtime.t = "val"
             THEN IF hour_of(bedtime) < 23
                  THEN 1 + night_owl_days(Tail(history))
                  ELSE 0
             ELSE night_owl_days(Tail(history))

check_night_owl_recovery(ctx, history, fail, now) ==
    LET consecutive_days == night_owl_days(history)
        c1 == Op(ctx, fail, "update_achievement_progress",
                 [ctx EXCEPT !.achievements =
                    update_achievement_progress(@, "night_owl_recovery",
                                                consecutive_days)])
    IN  IF ctx.raised THEN ctx
        ELSE IF consecutive_days >= 3
        THEN Op(c1, fail, "unlock_achievement",
                [c1 EXCEPT !.achievements =
                    unlock_achievement(@, "night_owl_recovery", now)])
        ELSE c1

\* a faulty variant: more than 5000 steps asked for
check_fitness_streak_above(ctx, history, fail, now) ==
    IF ctx.raised \/ Len(history) < 7 THEN ctx
    ELSE LET streak_run == leading(at_least_marks(first7(history), "step_count", 5001))
         IN  IF streak_run.raised THEN Raise(ctx)
             ELSE IF streak_run.n = 7
             THEN Op(ctx, fail, "unlock_achievement",
                     [ctx EXCEPT !.achievements =
                        unlock_achievement(@, "fitness_streak", now)])
             ELSE ctx

check_fitness_streak(ctx, history, fail, now) ==
    IF ctx.raised \/ Len(history) < 7 THEN ctx
    ELSE LET streak_run == leading(at_least_marks(first7(history), "step_count", 5000))
         IN  IF streak_run.raised THEN Raise(ctx)
             ELSE IF streak_run.n = 7
             THEN Op(ctx, fail, "unlock_achievement",
                     [ctx EXCEPT !.achievements =
                        unlock_achievement(@, "fitness_streak", now)])
             ELSE ctx

\* a faulty variant: the threshold of zen_master in place of 70
check_perfect_week_80(ctx, history, fail, now) ==
    IF ctx.raised \/ Len(history) < 7 THEN ctx
    ELSE LET perfect_week == leading(at_least_marks(first7(history), "balance_score", 80))
         IN  IF perfect_week.raised THEN Raise(ctx)
             ELSE IF perfect_week.n = 7
             THEN Op(ctx, fail, "unlock_achievement",
                     [ctx EXCEPT !.achievements =
                        unlock_achievement(@, "perfect_week", now)])
             ELSE ctx

check_perfect_week(ctx, history, fail, now) ==
    IF ctx.raised \/ Len(history) < 7 THEN ctx
    ELSE LET perfect_week == leading(at_least_marks(first7(history), "balance_score", 70))
         IN  IF perfect_week.raised THEN Raise(ctx)
             ELSE IF perfect_week.n = 7
             THEN Op(ctx, fail, "unlock_achievement",
                     [ctx EXCEPT !.achievements =
                        unlock_achievement(@, "perfect_week", now)])
             ELSE ctx

HISTORY_DAYS == 7

\* a store read: it raises or leaves the store as it is
Read(ctx, fail, fn) == Op(ctx, fail, fn, ctx)

\* lines 129-139: if not history: return; then the seven checks in order, an
\* exception in one of them skipping those after it
check_all(ctx, history, fail, now) ==
    IF ctx.raised \/ history = <<>> THEN ctx
    ELSE check_perfect_week(
          check_fitness_streak(
           check_night_owl_recovery(
            check_zen_master(
             check_study_buddy(
              check_step_master(
               check_early_bird(ctx, history, fail, now),
               history, fail, now),
              history, fail, now),
             history, fail, now),
            history, fail, now),
           history, fail, now),
          history, fail, now)

update_achievements(ctx, fail, now) ==
    check_all(Read(initialize_user_achievements(ctx, fail), fail,
                   "get_wellness_history"),
              get_wellness_history(ctx.wellness, HISTORY_DAYS), fail, now)

----------------------------------------------------------------------------
(* update_streak *)

\* a faulty variant: the same-day return left out
already_synced_never(streak_data, today) == FALSE

\* last_sync == today: already synced today
already_synced(streak_data, today) == streak_data.last_sync_date = today

\* a faulty variant: a broken streak restarts at 0
continued_streak_from_zero(streak_data, yesterday) ==
    LET current_streak ==
            IF streak_data.last_sync_date = yesterday
            THEN streak_data.current_streak + 1
            ELSE 0
    IN  [current_streak |-> current_streak,
         longest_streak |-> Max(current_streak, streak_data.longest_streak)]

\* a faulty variant: the longest streak is replaced by the current one
continued_streak_forgets(streak_data, yesterday) ==
    LET current_streak ==
            IF streak_data.last_sync_date = yesterday
            THEN streak_data.current_streak + 1
            ELSE 1
    IN  [current_streak |-> current_streak, longest_streak |-> current_streak]

\* a faulty variant: a sync after days without one continues the streak
continued_streak_over_gap(streak_data, yesterday) ==
    LET current_streak ==
            IF streak_data.last_sync_date <= yesterday
            THEN streak_data.current_streak + 1
            ELSE 1
    IN  [current_streak |-> current_streak,
         longest_streak |-> Max(current_streak, streak_data.longest_streak)]

\* lines 259-268: the current and the longest streak to store
continued_streak(streak_data, yesterday) ==
    LET current_streak ==
            IF streak_data.last_sync_date = yesterday
            THEN streak_data.current_streak + 1
            ELSE 1
        longest_streak ==
            IF current_streak > streak_data.longest_streak
            THEN current_streak
            ELSE streak_data.longest_streak
    IN  [current_streak |-> current_streak, longest_streak |-> longest_streak]

\* every datetime.now() of one call falls on the day `now`
update_streak(ctx, fail, now) ==
    LET c1 == Read(ctx, fail, "get_user_streak")
        found == get_user_streak(ctx.streak)
        today == now
        yesterday == now - 1
    IN  IF c1.raised THEN c1
        ELSE IF found = {}
        THEN Op(c1, fail, "update_user_streak",
                [c1 EXCEPT !.streak = update_user_streak(@, 1, 1, now)])
        ELSE LET streak_data == CHOOSE s \in found : TRUE
                 new == continued_streak(streak_data, yesterday)
             IN  IF already_synced(streak_data, today) THEN c1
                 ELSE Op(c1, fail, "update_user_streak",
                         [c1 EXCEPT !.streak =
                            update_user_streak(@, new.current_streak,
                                               new.longest_streak, now)])

----------------------------------------------------------------------------
(* sync_user_data and the views that call it *)

\* lines 85-95: fitness_data = {sleep_data, step_count, active_minutes},
\* attendance_data = {classes_attended, classes_total}
combine(fitness_data, attendance_data, now) ==
    LET sleep_data == fitness_data.sleep_data
        sleep(field) ==
            IF sleep_data = {} THEN None
            ELSE dict_get_none(CHOOSE d \in sleep_data : TRUE, field)
    IN  [date |-> Val(now),
         sleep_hours |-> sleep("sleep_hours"),
         bedtime |-> sleep("bedtime"),
         waketime |-> sleep("waketime"),
         step_count |-> dict_get(fitness_data, "step_count", Val(0)),
         active_minutes |-> dict_get(fitness_data, "active_minutes", Val(0)),
         classes_attended |-> dict_get(attendance_data, "classes_attended", Val(0)),
         classes_total |-> dict_get(attendance_data, "classes_total", Val(0)),
         balance_score |-> Absent]

\* a faulty variant: the except clause only around the store calls, the dict returned anyway
sync_user_data_returns(ctx, fitness_data, attendance_data, fail, now) ==
    LET combined == combine(fitness_data, attendance_data, now)
        score == calculate_balance_score(combined)
        wellness_data == [combined EXCEPT !.balance_score = Val(score.value)]
    IN  IF score.raised THEN [ctx |-> ctx, ret |-> {}]
        ELSE [ctx |-> update_streak(
                        update_achievements(
                          Op(ctx, fail, "save_wellness_data",
                             [ctx EXCEPT !.wellness =
                                save_wellness_data(@, wellness_data, now)]),
                          fail, now),
                        fail, now),
              ret |-> {wellness_data}]

\* return wellness_data, or None from the except clause (lines 109-113)
returned(ctx, wellness_data) ==
    [ctx |-> ctx, ret |-> IF ctx.raised THEN {} ELSE {wellness_data}]

\* a faulty variant: the streak updated before the achievements are evaluated
sync_user_data_streak_first(ctx, fitness_data, attendance_data, fail, now) ==
    LET combined == combine(fitness_data, attendance_data, now)
        score == calculate_balance_score(combined)
        wellness_data == [combined EXCEPT !.balance_score = Val(score.value)]
    IN  IF score.raised THEN [ctx |-> ctx, ret |-> {}]
        ELSE returned(
                update_achievements(
                  update_streak(
                    Op(ctx, fail, "save_wellness_data",
                       [ctx EXCEPT !.wellness =
                          save_wellness_data(@, wellness_data, now)]),
                    fail, now),
                  fail, now),
                wellness_data)

\* [ctx, ret]: the store the call leaves, and the dict returned ({} is None)
sync_user_data(ctx, fitness_data, attendance_data, fail, now) ==
    LET combined == combine(fitness_data, attendance_data, now)
        score == calculate_balance_score(combined)
        wellness_data == [combined EXCEPT !.balance_score = Val(score.value)]
    IN  IF score.raised THEN [ctx |-> ctx, ret |-> {}]
        ELSE returned(
                update_streak(
                  update_achievements(
                    Op(ctx, fail, "save_wellness_data",
                       [ctx EXCEPT !.wellness =
                          save_wellness_data(@, wellness_data, now)]),
                    fail, now),
                  fail, now),
                wellness_data)

----------------------------------------------------------------------------
(* What the providers can answer *)

sleep_session(sleep_hours, bedtime, waketime) ==
    {[sleep_hours |-> Val(sleep_hours), bedtime |-> Val(bedtime),
      waketime |-> Val(waketime)]}

\* sync_fitness_data: every getter answers None when the provider fails
FitnessDown == [sleep_data |-> {}, step_count |-> None, active_minutes |-> None]
FitnessGood ==
    [sleep_data |-> sleep_session(80, 2230, 730),
     step_count |-> Val(10000), active_minutes |-> Val(30)]
FitnessLate ==
    [sleep_data |-> sleep_session(50, 2330, 900),
     step_count |-> Val(5000), active_minutes |-> Val(15)]
FitnessNoSleep ==
    [sleep_data |-> {}, step_count |-> Val(0), active_minutes |-> Val(0)]
\* the step and activity requests fail, the sleep request answers
FitnessSleepOnly ==
    [sleep_data |-> sleep_session(80, 2230, 730),
     step_count |-> None, active_minutes |-> None]

\* calculate_attendance: attended_classes = total_classes
attendance(total_classes) ==
    [classes_total |-> Val(total_classes), classes_attended |-> Val(total_classes)]

\* <<fitness_data, attendance_data>> of one sync
SyncInputs == {<<FitnessGood, attendance(2)>>, <<FitnessDown, attendance(2)>>}

WeekInputs == {<<FitnessGood, attendance(2)>>, <<FitnessNoSleep, attendance(0)>>}

AllSyncInputs ==
    {<<FitnessGood, attendance(2)>>, <<FitnessLate, attendance(0)>>,
     <<FitnessNoSleep, attendance(0)>>, <<FitnessDown, attendance(2)>>,
     <<FitnessDown, attendance(0)>>, <<FitnessSleepOnly, attendance(2)>>}

\* every store operation a sync can make
AllFailures ==
    {NoFailure}
    \cup {[fn |-> "initialize_user_achievements", nth |-> k] : k \in 1..Len(ACHIEVEMENTS)}
    \cup {[fn |-> "update_achievement_progress", nth |-> k] : k \in 1..3}
    \cup {[fn |-> "unlock_achievement", nth |-> k] : k \in 1..Len(ACHIEVEMENTS)}
    \cup {[fn |-> f, nth |-> 1] :
            f \in {"save_wellness_data", "get_wellness_history",
                   "get_user_streak", "update_user_streak"}}

\* a store function that fails fails from its first use
FirstFailures == {f \in AllFailures : f.nth <= 1}

InitFailures == {f \in AllFailures : f.fn \in {"none", "initialize_user_achievements"}}

MaxDay == 4
MaxCalls == 2
MaxWeekDay == 2

----------------------------------------------------------------------------
(* The service over the days: one request at a time, each within one day *)

\* request.session: mood and cached_mood are "absent" while the key is not
\* set (session.get answers None, or the default given); suggestions holds
\* at most one cached list; force_regenerate unset reads as False (line 62)
NoSession ==
    [mood |-> "absent", cached_mood |-> "absent", suggestions |-> {},
     force_regenerate |-> FALSE]

\* sync_data, lines 194-195: if wellness_data: session['force_regenerate'] = True
session_after_sync(s, ret) ==
    IF ret # {} THEN [s EXCEPT !.force_regenerate = TRUE] ELSE s

\* the last call of the day: what it was given, the streak it found stored,
\* whether an exception ended it, what it returned
NoCall == [op |-> "none", fitness_data |-> FitnessDown,
           attendance_data |-> attendance(0), streak_before |-> {},
           failed |-> FALSE, ret |-> {}, success |-> FALSE]

\* max_current: the largest current_streak stored so far; calls: requests made;
\* day_start, stale: see the concurrent syncs below
IdleObs == [max_current |-> 0, calls |-> 0, day_start |-> 0, stale |-> FALSE]

Observe(o, s) == [o EXCEPT !.max_current = Max(@, current_of(s))]

Init ==
    /\ day = 1
    /\ wellness = {}
    /\ achievements = {}
    /\ streak = {}
    /\ call = NoCall
    /\ procs = <<>>
    /\ session = NoSession
    /\ obs = IdleObs

\* sync_data (views.py): sync_user_data, success = the dict returned is not None
Sync(inputs, failures, calls) ==
    \E input \in inputs, fail \in failures :
        \E r \in {sync_user_data(new_ctx(wellness, achievements, streak),
                                 input[1], input[2], fail, day)} :
            /\ wellness' = r.ctx.wellness
            /\ achievements' = r.ctx.achievements
            /\ streak' = r.ctx.streak
            /\ call' = [op |-> "sync", fitness_data |-> input[1],
                        attendance_data |-> input[2], streak_before |-> streak,
                        failed |-> r.ctx.raised, ret |-> r.ret,
                        success |-> r.ret # {}]
            /\ obs' = [Observe(obs, r.ctx.streak) EXCEPT !.calls = calls]
            /\ session' = session_after_sync(session, r.ret)
            /\ UNCHANGED <<day, procs>>

\* POST sync_data
SyncData == Sync(SyncInputs, FirstFailures, obs.calls)

\* GET rewards: initialize_user_achievements, then reads
Rewards ==
    \E fail \in InitFailures :
        \E r \in {initialize_user_achievements(
                    new_ctx(wellness, achievements, streak), fail)} :
            /\ achievements' = r.achievements
            /\ call' = [NoCall EXCEPT !.op = "rewards", !.failed = r.raised,
                                      !.success = ~r.raised]
            /\ UNCHANGED <<day, wellness, streak, procs, obs, session>>

\* midnight
Tick ==
    /\ day < MaxDay
    /\ day' = day + 1
    /\ call' = NoCall
    /\ UNCHANGED <<wellness, achievements, streak, procs, obs, session>>

Next == SyncData \/ Rewards \/ Tick

Spec == Init /\ [][Next]_vars

----------------------------------------------------------------------------
(* One request after another, with every provider answer and every store   *)
(* failure, for the first MaxCalls requests                                *)

SyncAnyData ==
    /\ obs.calls < MaxCalls
    /\ Sync(AllSyncInputs, AllFailures, obs.calls + 1)

NextSync == SyncAnyData \/ Tick

SpecSync == Init /\ [][NextSync]_vars

----------------------------------------------------------------------------
(* Concurrent syncs of one user inside update_streak.  Each process is a   *)
(* sync that has reached update_streak; its store read, its clock reads    *)
(* and its store write are separate steps, and midnight can fall between   *)
(* any two of them.                                                        *)
(*   obs.day_start: the current_streak stored when the day began           *)
(*   obs.stale: a write of today came from a sync that read the streak     *)
(*              on an earlier day                                          *)

NumSyncs == 2
MaxRaceDay == 3

Syncs == 1..NumSyncs

IdleProc == [pc |-> "idle", found |-> {}, today |-> 0, current_streak |-> 0,
             longest_streak |-> 0, read_day |-> 0]

InitRace ==
    /\ day = 1
    /\ wellness = {}
    /\ achievements = {}
    /\ streak = {}
    /\ call = NoCall
    /\ procs = [p \in Syncs |-> IdleProc]
    /\ session = NoSession
    /\ obs = IdleObs

\* line 241: streak_data = get_user_streak(user_id)
GetStreak(p) ==
    /\ procs[p].pc = "idle"
    /\ procs' = [procs EXCEPT ![p] = [@ EXCEPT !.pc = "today",
                                              !.found = get_user_streak(streak),
                                              !.read_day = day]]
    /\ UNCHANGED <<day, wellness, achievements, streak, call, obs, session>>

\* lines 242-255: today = now(); first time, or already synced today
ReadToday(p) ==
    /\ procs[p].pc = "today"
    /\ procs' = [procs EXCEPT ![p] =
            IF @.found = {}
            THEN [@ EXCEPT !.pc = "write", !.today = day,
                           !.current_streak = 1, !.longest_streak = 1]
            ELSE IF already_synced(CHOOSE s \in @.found : TRUE, day)
            THEN IdleProc
            ELSE [@ EXCEPT !.pc = "yesterday", !.today = day]]
    /\ UNCHANGED <<day, wellness, achievements, streak, call, obs, session>>

\* lines 257-268: yesterday = now() - 1 day; continue or restart the streak
ReadYesterday(p) ==
    /\ procs[p].pc = "yesterday"
    /\ procs' = [procs EXCEPT ![p] =
            LET new == continued_streak(CHOOSE s \in @.found : TRUE, day - 1)
            IN  [@ EXCEPT !.pc = "write",
                          !.current_streak = new.current_streak,
                          !.longest_streak = new.longest_streak]]
    /\ UNCHANGED <<day, wellness, achievements, streak, call, obs, session>>

\* lines 246, 270: update_user_streak, which reads now() for last_sync_date
WriteStreak(p) ==
    /\ procs[p].pc = "write"
    /\ streak' = update_user_streak(streak, procs[p].current_streak,
                                    procs[p].longest_streak, day)
    /\ procs' = [procs EXCEPT ![p] = IdleProc]
    /\ obs' = [Observe(obs, streak') EXCEPT
                    !.stale = @ \/ procs[p].read_day # day]
    /\ UNCHANGED <<day, wellness, achievements, call, session>>

\* midnight, at any point of any sync
TickRace ==
    /\ day < MaxRaceDay
    /\ day' = day + 1
    /\ obs' = [obs EXCEPT !.day_start = current_of(streak), !.stale = FALSE]
    /\ UNCHANGED <<wellness, achievements, streak, call, procs, session>>

NextRace ==
    \/ \E p \in Syncs : GetStreak(p)
    \/ \E p \in Syncs : ReadToday(p)
    \/ \E p \in Syncs : ReadYesterday(p)
    \/ \E p \in Syncs : WriteStreak(p)
    \/ TickRace

SpecRace == InitRace /\ [][NextRace]_vars

----------------------------------------------------------------------------
(* The service from the seventh day on.  The store is the one six days of  *)
(* syncs leave: six good days, either evaluated every day or with the      *)
(* achievement store failing every day (the records are saved, nothing     *)
(* else is).                                                               *)

\* the store a call left, as the next call finds it
next_call(ctx) == new_ctx(ctx.wellness, ctx.achievements, ctx.streak)

RECURSIVE after_days(_, _)
after_days(k, fail) ==
    IF k = 0 THEN new_ctx({}, {}, {})
    ELSE CHOOSE after \in
            {sync_user_data(next_call(before), FitnessGood, attendance(2), fail, k).ctx :
                before \in {after_days(k - 1, fail)}} : TRUE

InitWeek ==
    \E fail \in {f \in FirstFailures :
                    f.fn \in {"none", "initialize_user_achievements"}} :
        \E c \in {after_days(HISTORY_DAYS - 1, fail)} :
            /\ day = HISTORY_DAYS
            /\ wellness = c.wellness
            /\ achievements = c.achievements
            /\ streak = c.streak
            /\ call = NoCall
            /\ procs = <<>>
            /\ session = NoSession
            /\ obs = Observe(IdleObs, c.streak)

TickWeek ==
    /\ day < HISTORY_DAYS + MaxWeekDay - 1
    /\ day' = day + 1
    /\ call' = NoCall
    /\ UNCHANGED <<wellness, achievements, streak, procs, obs, session>>

SyncWeek == Sync(WeekInputs, FirstFailures, obs.calls)

NextWeek == SyncWeek \/ Rewards \/ TickWeek

SpecWeek == InitWeek /\ [][NextWeek]_vars

----------------------------------------------------------------------------
(* calculate_balance_score on its own: every record of ScoreInputs *)

SleepValues == {Absent, None} \cup {Val(h) : h \in {0, 30, 59, 60, 69, 70, 80, 90, 91, 100, 101, 140}}
StepValues == {Absent, None} \cup {Val(n) : n \in {0, 1999, 2000, 4999, 5000, 9999, 10000}}
ActiveValues == {Absent, None} \cup {Val(n) : n \in {0, 14, 15, 29, 30}}
\* <<classes_total, classes_attended>>
ClassValues ==
    {<<Absent, Absent>>, <<None, None>>, <<Val(3), None>>, <<Val(0), Val(0)>>}
    \cup {<<Val(2), Val(n)>> : n \in 0..2}
    \cup {<<Val(10), Val(n)>> : n \in 4..10}

ScoreInputs ==
    {[date |-> Absent, sleep_hours |-> s, bedtime |-> Absent, waketime |-> Absent,
      step_count |-> n, active_minutes |-> a, classes_total |-> c[1],
      classes_attended |-> c[2], balance_score |-> Absent] :
        s \in SleepValues, n \in StepValues, a \in ActiveValues, c \in ClassValues}

InitScore ==
    /\ day = 1
    /\ wellness = {}
    /\ achievements = {}
    /\ streak = {}
    /\ \E wellness_data \in ScoreInputs :
            call = [op |-> "record", wellness_data |-> wellness_data,
                    result |-> [raised |-> FALSE, value |-> 0]]
    /\ procs = <<>>
    /\ session = NoSession
    /\ obs = IdleObs

Score ==
    /\ call.op = "record"
    /\ call' = [call EXCEPT !.op = "score",
                            !.result = calculate_balance_score(call.wellness_data)]
    /\ UNCHANGED <<day, wellness, achievements, streak, procs, obs, session>>

NextScore == Score

SpecScore == InitScore /\ [][NextScore]_vars

----------------------------------------------------------------------------
(* update_achievements on its own: every history of up to MaxHistory days, *)
(* each day's record one that a sync stores                                *)

MaxHistory == 8

EvalInputs ==
    {<<FitnessGood, attendance(2)>>, <<FitnessNoSleep, attendance(2)>>,
     <<FitnessLate, attendance(0)>>}

\* the record sync_user_data builds and saves on day d
stored(input, d) ==
    LET combined == combine(input[1], input[2], d)
    IN  [combined EXCEPT !.balance_score = Val(calculate_balance_score(combined).value)]

InitEval ==
    \E n \in 0..MaxHistory :
        \E days \in [1..n -> EvalInputs] :
            /\ day = Max(n, 1)
            /\ wellness = {stored(days[d], d) : d \in 1..n}
            /\ achievements = {}
            /\ streak = {}
            /\ call = NoCall
            /\ procs = <<>>
            /\ session = NoSession
            /\ obs = IdleObs

Evaluate ==
    /\ call.op = "none"
    /\ \E r \in {update_achievements(new_ctx(wellness, achievements, streak),
                                     NoFailure, day)} :
            /\ achievements' = r.achievements
            /\ call' = [NoCall EXCEPT !.op = "evaluate", !.failed = r.raised,
                                      !.success = ~r.raised]
    /\ UNCHANGED <<day, wellness, streak, procs, obs, session>>

NextEval == Evaluate

SpecEval == InitEval /\ [][NextEval]_vars

----------------------------------------------------------------------------
(* Syncs of one day, one after another, over the records of up to MaxPast  *)
(* earlier days: a later sync of the day replaces the day's record and     *)
(* evaluates again.  The earlier days' syncs saved their records and       *)
(* failed at the achievement store.                                        *)

MaxPast == 4

InitPast ==
    \E n \in 0..MaxPast :
        \E days \in [1..n -> EvalInputs] :
            /\ day = n + 1
            /\ wellness = {stored(days[d], d) : d \in 1..n}
            /\ achievements = {}
            /\ streak = {}
            /\ call = NoCall
            /\ procs = <<>>
            /\ session = NoSession
            /\ obs = IdleObs

SyncAgain == Sync(EvalInputs, {NoFailure}, obs.calls)

NextPast == SyncAgain

SpecPast == InitPast /\ [][NextPast]_vars

----------------------------------------------------------------------------
(* The seven checks on a history handed to them by a caller: the records   *)
(* of up to MaxGiven days in any order, the achievements initialised       *)

MaxGiven == 3

\* the records of days 1..n in the order `order` gives
given_history(days, order) ==
    [i \in 1..Len(order) |-> stored(days[order[i]], order[i])]

Orders(n) == {order \in [1..n -> 1..n] : \A i, j \in 1..n : order[i] = order[j] => i = j}

InitGiven ==
    \E n \in 0..MaxGiven :
        \E days \in [1..n -> EvalInputs], order \in Orders(n) :
            /\ day = n + 1
            /\ wellness = {}
            /\ achievements =
                    initialize_user_achievements(new_ctx({}, {}, {}), NoFailure).achievements
            /\ streak = {}
            /\ call = [op |-> "given", history |-> given_history(days, order),
                       failed |-> FALSE, before |-> {}]
            /\ procs = <<>>
            /\ session = NoSession
            /\ obs = IdleObs

\* check_early_bird(user_id, history) ... check_perfect_week(user_id, history)
CheckGiven ==
    /\ call.op = "given"
    /\ \E r \in {check_all(new_ctx(wellness, achievements, streak), call.history,
                            NoFailure, day)} :
            /\ achievements' = r.achievements
            /\ call' = [call EXCEPT !.op = "checked", !.failed = r.raised,
                                    !.before = achievements]
    /\ UNCHANGED <<day, wellness, streak, procs, obs, session>>

NextGiven == CheckGiven

SpecGiven == InitGiven /\ [][NextGiven]_vars

----------------------------------------------------------------------------
(* update_streak on its own, under a clock that can be set to any day      *)
(* (forward at midnight, or back: clock skew between servers)              *)

MaxStreakDay == 4

StreakFailures ==
    {f \in FirstFailures : f.fn \in {"none", "get_user_streak", "update_user_streak"}}

UpdateStreak ==
    \E fail \in StreakFailures :
        \E r \in {update_streak(new_ctx(wellness, achievements, streak), fail, day)} :
            /\ streak' = r.streak
            /\ call' = [NoCall EXCEPT !.op = "update_streak",
                                      !.streak_before = streak,
                                      !.failed = r.raised, !.success = ~r.raised]
            /\ obs' = Observe(obs, r.streak)
            /\ UNCHANGED <<day, wellness, achievements, procs, session>>

SetClock ==
    \E d \in 1..MaxStreakDay :
        /\ d # day
        /\ day' = d
        /\ call' = NoCall
        /\ UNCHANGED <<wellness, achievements, streak, procs, obs, session>>

NextStreak == UpdateStreak \/ SetClock

SpecStreak == Init /\ [][NextStreak]_vars

----------------------------------------------------------------------------
(* Syncs over the days, with the days on which a sync succeeded kept       *)
(* beside the store: days may pass without a sync, and a sync may fail     *)
(* before or after it has saved the day's record                           *)

MaxSpanDay == 5

DayInputs == {<<FitnessGood, attendance(2)>>, <<FitnessDown, attendance(2)>>}

DayFailures ==
    {f \in FirstFailures :
        f.fn \in {"none", "save_wellness_data", "get_wellness_history",
                  "get_user_streak", "update_user_streak"}}

InitDays ==
    /\ day = 1
    /\ wellness = {}
    /\ achievements = {}
    /\ streak = {}
    /\ call = NoCall
    /\ procs = <<>>
    /\ session = NoSession
    /\ obs = [max_current |-> 0, calls |-> 0, day_start |-> 0, stale |-> FALSE,
              ok_days |-> {}]

\* sync_data (views.py), and the day noted when the dict returned is not None
SyncOnDay ==
    \E input \in DayInputs, fail \in DayFailures :
        \E r \in {sync_user_data(new_ctx(wellness, achievements, streak),
                                 input[1], input[2], fail, day)} :
            /\ wellness' = r.ctx.wellness
            /\ achievements' = r.ctx.achievements
            /\ streak' = r.ctx.streak
            /\ call' = [op |-> "sync", fitness_data |-> input[1],
                        attendance_data |-> input[2], streak_before |-> streak,
                        failed |-> r.ctx.raised, ret |-> r.ret,
                        success |-> r.ret # {}]
            /\ obs' = [Observe(obs, r.ctx.streak) EXCEPT
                        !.ok_days = IF r.ret # {} THEN @ \cup {day} ELSE @]
            /\ session' = session_after_sync(session, r.ret)
            /\ UNCHANGED <<day, procs>>

\* midnight
TickDays ==
    /\ day < MaxSpanDay
    /\ day' = day + 1
    /\ call' = NoCall
    /\ UNCHANGED <<wellness, achievements, streak, procs, obs, session>>

NextDays == SyncOnDay \/ TickDays

SpecDays == InitDays /\ [][NextDays]_vars

----------------------------------------------------------------------------
(* One browser session: the dashboard page, the mood and sync endpoints.   *)
(*   obs.pending: a change_mood or a successful sync_data has been         *)
(*                answered since the last dashboard render                 *)

MaxSessionDay == 2

SessionMoods == {"balanced", "stressed", "tired"}

SessionInputs == {<<FitnessGood, attendance(2)>>, <<FitnessDown, attendance(2)>>}

SessionFailures ==
    {f \in FirstFailures : f.fn \in {"none", "save_wellness_data", "get_wellness_history"}}

\* generate_wellness_suggestions(mood, balance_score, ...): a non-empty list,
\* held as what it was generated for
generate_wellness_suggestions(mood, balance_score) ==
    [mood |-> mood, balance_score |-> balance_score]

\* request.session.get('mood', 'balanced')
session_mood(s) == IF s.mood = "absent" THEN "balanced" ELSE s.mood

\* line 64: not session.get('suggestions') or cached_mood != mood or force_regenerate
must_regenerate(s) ==
    s.suggestions = {} \/ s.cached_mood # session_mood(s) \/ s.force_regenerate

\* lines 56-83: the session a render with data leaves
session_after_render(s, today_data) ==
    IF must_regenerate(s)
    THEN [s EXCEPT !.suggestions =
                     {generate_wellness_suggestions(session_mood(s),
                                                    today_data.balance_score.v)},
                   !.cached_mood = session_mood(s),
                   !.force_regenerate = FALSE]
    ELSE s

\* lines 26-37: today's record, after the automatic sync when there was
\* none; r is what that sync returned
today_after(found, r, now) ==
    IF found # {} THEN found
    ELSE IF r.ret # {} THEN get_wellness_data(r.ctx.wellness, now)
    ELSE {}

InitSession ==
    /\ day = 1
    /\ wellness = {}
    /\ achievements = {}
    /\ streak = {}
    /\ call = NoCall
    /\ procs = <<>>
    /\ session = NoSession
    /\ obs = [max_current |-> 0, calls |-> 0, day_start |-> 0, stale |-> FALSE,
              pending |-> FALSE]

\* GET dashboard
Dashboard ==
    \E input \in SessionInputs, fail \in SessionFailures :
        \E r \in {IF get_wellness_data(wellness, day) # {}
                  THEN [ctx |-> new_ctx(wellness, achievements, streak), ret |-> {}]
                  ELSE sync_user_data(new_ctx(wellness, achievements, streak),
                                      input[1], input[2], fail, day)} :
            \E today_data \in {today_after(get_wellness_data(wellness, day), r, day)} :
                /\ wellness' = r.ctx.wellness
                /\ achievements' = r.ctx.achievements
                /\ streak' = r.ctx.streak
                /\ IF today_data = {}
                   THEN /\ session' = session
                        /\ call' = [op |-> "dashboard", no_data |-> TRUE,
                                    mood |-> "balanced", suggestions |-> {},
                                    regenerated |-> FALSE]
                   ELSE /\ session' = session_after_render(
                                        session, CHOOSE d \in today_data : TRUE)
                        /\ call' = [op |-> "dashboard", no_data |-> FALSE,
                                    mood |-> session_mood(session),
                                    suggestions |-> session'.suggestions,
                                    regenerated |-> must_regenerate(session)]
                /\ obs' = [Observe(obs, r.ctx.streak) EXCEPT !.pending = FALSE]
                /\ UNCHANGED <<day, procs>>

\* POST change_mood
ChangeMood ==
    \E mood \in SessionMoods :
        /\ session' = [session EXCEPT !.mood = mood, !.force_regenerate = TRUE]
        /\ call' = [op |-> "change_mood", mood |-> mood]
        /\ obs' = [obs EXCEPT !.pending = TRUE]
        /\ UNCHANGED <<day, wellness, achievements, streak, procs>>

\* POST sync_data
SyncInSession ==
    \E input \in SessionInputs, fail \in SessionFailures :
        \E r \in {sync_user_data(new_ctx(wellness, achievements, streak),
                                 input[1], input[2], fail, day)} :
            /\ wellness' = r.ctx.wellness
            /\ achievements' = r.ctx.achievements
            /\ streak' = r.ctx.streak
            /\ session' = session_after_sync(session, r.ret)
            /\ call' = [op |-> "sync", fitness_data |-> input[1],
                        attendance_data |-> input[2], streak_before |-> streak,
                        failed |-> r.ctx.raised, ret |-> r.ret,
                        success |-> r.ret # {}]
            /\ obs' = [Observe(obs, r.ctx.streak) EXCEPT
                        !.pending = @ \/ r.ret # {}]
            /\ UNCHANGED <<day, procs>>

\* midnight
TickSession ==
    /\ day < MaxSessionDay
    /\ day' = day + 1
    /\ call' = NoCall
    /\ UNCHANGED <<wellness, achievements, streak, procs, session, obs>>

NextSession == Dashboard \/ ChangeMood \/ SyncInSession \/ TickSession

SpecSession == InitSession /\ [][NextSession]_vars

----------------------------------------------------------------------------
(* The claims *)

SCORE_FIELDS ==
    {"sleep_hours", "step_count", "active_minutes", "classes_total", "classes_attended"}

all_null(wellness_data) == \A f \in SCORE_FIELDS : wellness_data[f].t # "val"

top_tiers(wellness_data) ==
    /\ \A f \in SCORE_FIELDS : wellness_data[f].t = "val"
    /\ 70 <= wellness_data.sleep_hours.v /\ wellness_data.sleep_hours.v <= 90
    /\ wellness_data.step_count.v >= 10000
    /\ wellness_data.active_minutes.v >= 30
    /\ wellness_data.classes_total.v > 0
    /\ 10 * wellness_data.classes_attended.v >= 9 * wellness_data.classes_total.v

\* C1: calculate_balance_score returns an integer in 0..100 for every record,
\* 50 for a record whose scored fields are all null or absent, and 100 for a
\* record that earns every top tier.
C1_ScoreInRange ==
    call.op = "score" =>
        /\ ~call.result.raised
        /\ call.result.value \in 0..100
        /\ all_null(call.wellness_data) => call.result.value = 50
        /\ top_tiers(call.wellness_data) => call.result.value = 100

Unlocked(coll) == {a.achievement_id : a \in {b \in coll : b.unlocked}}

\* C2: unlocking is one-way: an achievement stored as unlocked is stored as
\* unlocked after every later sync, evaluation and initialisation.
C2_UnlockOneWay == [][Unlocked(achievements) \subseteq Unlocked(achievements')]_vars

\* all seven are unlocked and a sync has just evaluated a history whose
\* latest record scores 50
W_C2 ==
    /\ Unlocked(achievements) = ACHIEVEMENT_IDS
    /\ call.op = "sync" /\ call.success
    /\ call.fitness_data = FitnessNoSleep
    /\ \E d \in wellness : d.date.v = day /\ d.balance_score.v = 50

SyncedToday == streak # {} /\ \A s \in streak : s.last_sync_date = day

\* C3: when the stored last_sync_date is today, a sync leaves the stored
\* streak as it is; and a sync that changes the streak stores today as
\* last_sync_date, so the streak changes at most once in a calendar day.
C3_SameDayNoOp ==
    [][/\ SyncedToday => streak' = streak
       /\ streak' # streak => SyncedToday']_vars

\* a sync that ran to its end found today as last_sync_date
W_C3 ==
    /\ call.op = "sync" /\ call.success
    /\ call.streak_before # {}
    /\ \A s \in call.streak_before : s.last_sync_date = day /\ s.current_streak >= 2

\* the streak the claim gives for an update on day `today`
claimed_streak(before, today) ==
    IF before = {}
    THEN [current_streak |-> 1, longest_streak |-> 1, last_sync_date |-> today]
    ELSE LET old == CHOOSE s \in before : TRUE
             current == IF old.last_sync_date = today - 1
                        THEN old.current_streak + 1
                        ELSE 1
         IN  [current_streak |-> current,
              longest_streak |-> Max(old.longest_streak, current),
              last_sync_date |-> today]

\* C4: an update that is not a same-day repeat stores current 1 / longest 1
\* when there was no state, current + 1 when last_sync_date was the day
\* before, current 1 otherwise (a gap, or a last_sync_date after today),
\* with last_sync_date today and longest the larger of the old longest and
\* the new current.
C4_StreakUpdate ==
    (/\ call.op = "update_streak" /\ ~call.failed
     /\ \A s \in call.streak_before : s.last_sync_date # day)
        => streak = {claimed_streak(call.streak_before, day)}

\* an update that found a last_sync_date after today restarted the streak
\* and kept the longest
W_C4 ==
    /\ call.op = "update_streak" /\ ~call.failed
    /\ \E s \in call.streak_before : s.last_sync_date > day /\ s.current_streak >= 2
    /\ current_of(streak) = 1 /\ longest_of(streak) >= 2

\* C5: the stored longest_streak is the largest current_streak ever stored
\* (so it is at least the current one and never decreases).
C5_LongestIsMax ==
    /\ longest_of(streak) = obs.max_current
    /\ longest_of(streak) >= current_of(streak)

\* a sync restarted a streak that had been longer
W_C5 ==
    /\ call.op = "sync" /\ call.success
    /\ current_of(streak) = 1 /\ longest_of(streak) >= 2
    /\ \A s \in streak : s.last_sync_date = day

\* C6: syncs that read and write the streak within one calendar day leave
\* current_streak at most one above its value when the day began.
C6_NoDoubleIncrement ==
    ~obs.stale => current_of(streak) <= obs.day_start + 1

\* two syncs have both read yesterday's streak today and are both about to
\* write it incremented
W_C6 ==
    /\ obs.day_start >= 1
    /\ \A p \in Syncs :
        /\ procs[p].pc = "write"
        /\ procs[p].read_day = day
        /\ procs[p].current_streak = obs.day_start + 1

\* C7: with the fitness provider down (sleep data, steps and active minutes
\* all None) and a calendar with classes, a sync whose store operations all
\* work saves and returns today's record, scored from what is present.
C7_ProviderDownStillSyncs ==
    (/\ call.op = "sync"
     /\ call.fitness_data = FitnessDown
     /\ call.attendance_data.classes_total.v > 0
     /\ ~call.failed)
        => /\ call.success
           /\ call.ret \subseteq wellness
           /\ \A d \in call.ret : d.date.v = day /\ d.balance_score.v = 75

\* C8: a sync in which a store operation fails returns None and the endpoint
\* answers success = false; a record is returned only when it is the one
\* stored for today.
C8_FailureReported ==
    call.op = "sync" =>
        /\ call.failed => call.ret = {} /\ ~call.success
        /\ call.success =>
            /\ call.ret # {}
            /\ call.ret \subseteq wellness
            /\ \A d \in call.ret : d.date.v = day

\* a store operation failed after today's record was saved, and the sync
\* answered None
W_C8 ==
    /\ call.op = "sync" /\ call.failed /\ call.ret = {}
    /\ \E d \in wellness : d.date.v = day
    /\ achievements # {}

\* the leading run the claims describe: it ends at the first day whose
\* time is missing or whose hour is not below the limit
RECURSIVE claimed_run(_, _, _)
claimed_run(history, field, limit) ==
    IF history = <<>> THEN 0
    ELSE LET time == Head(history)[field]
         IN  IF time.t = "val" /\ time.v \div 100 < limit
             THEN 1 + claimed_run(Tail(history), field, limit)
             ELSE 0

achievement(coll, achievement_id) == CHOOSE a \in coll : a.achievement_id = achievement_id

evaluated_history == get_wellness_history(wellness, HISTORY_DAYS)

\* C9: an evaluation sets early_bird progress to the length of the leading
\* run of days with a waketime before 8, the run ending at the first day
\* with no waketime or a later one, and unlocks early_bird exactly when
\* that length is at least 5.
C9_EarlyBird ==
    (call.op = "evaluate" /\ evaluated_history # <<>>) =>
        LET run == claimed_run(evaluated_history, "waketime", 8)
            early_bird == achievement(achievements, "early_bird")
        IN  /\ early_bird.progress = run
            /\ early_bird.unlocked <=> run >= 5

\* C10: an evaluation sets night_owl_recovery progress to the length of the
\* leading run of days with a bedtime before 23, the run ending at the first
\* day with no bedtime or a later one, and unlocks night_owl_recovery
\* exactly when that length is at least 3.
C10_NightOwlRecovery ==
    (call.op = "evaluate" /\ evaluated_history # <<>>) =>
        LET run == claimed_run(evaluated_history, "bedtime", 23)
            night_owl_recovery == achievement(achievements, "night_owl_recovery")
        IN  /\ night_owl_recovery.progress = run
            /\ night_owl_recovery.unlocked <=> run >= 3

\* the leading run of days whose `field` is at least `threshold`
RECURSIVE claimed_run_at_least(_, _, _)
claimed_run_at_least(history, field, threshold) ==
    IF history = <<>> THEN 0
    ELSE IF Head(history)[field].t = "val" /\ Head(history)[field].v >= threshold
         THEN 1 + claimed_run_at_least(Tail(history), field, threshold)
         ELSE 0

\* the document of an achievement before its first initialisation
before_step(coll, achievement_id) ==
    IF \E a \in coll : a.achievement_id = achievement_id
    THEN achievement(coll, achievement_id)
    ELSE new_achievement(achievement_id)

\* C11: every sync that succeeds overwrites zen_master progress with the
\* length of the leading run of days with balance_score >= 80, whatever the
\* progress was before; it unlocks zen_master (unlocked_date today) when the
\* run is at least 3 and leaves unlocked and unlocked_date alone otherwise.
C11_ZenMaster ==
    [][(call'.op = "sync" /\ call'.success) =>
        LET run == claimed_run_at_least(get_wellness_history(wellness', HISTORY_DAYS),
                                        "balance_score", 80)
            old == before_step(achievements, "zen_master")
            new == achievement(achievements', "zen_master")
        IN  /\ new.progress = run
            /\ run >= 3 => new.unlocked /\ new.unlocked_date = Val(day)
            /\ run < 3 => /\ new.unlocked = old.unlocked
                          /\ new.unlocked_date = old.unlocked_date]_vars

\* a sync has taken zen_master progress from at least 3 back to 0
W_C11 ==
    /\ call.op = "sync" /\ call.success
    /\ achievement(achievements, "zen_master").progress = 0
    /\ achievement(achievements, "zen_master").unlocked
    /\ \E d \in wellness : d.date.v = day /\ d.balance_score.v < 80

\* the history holds 7 records and `ok` is true of each of them
seven_days(history, ok(_)) ==
    Len(history) >= 7 /\ \A i \in 1..7 : ok(history[i])

score_at_least_70(d) == d.balance_score.t = "val" /\ d.balance_score.v >= 70
score_is_75(d) == d.balance_score = Val(75)

\* C12: an evaluation unlocks perfect_week exactly when the history holds 7
\* records and each of the 7 most recent has balance_score >= 70; seven
\* days of 75 unlock perfect_week, do not unlock zen_master and leave its
\* progress at 0.
C12_PerfectWeek ==
    call.op = "evaluate" =>
        /\ achievement(achievements, "perfect_week").unlocked
                <=> seven_days(evaluated_history, score_at_least_70)
        /\ seven_days(evaluated_history, score_is_75) =>
                /\ achievement(achievements, "perfect_week").unlocked
                /\ ~achievement(achievements, "zen_master").unlocked
                /\ achievement(achievements, "zen_master").progress = 0

\* seven days of 75 have been evaluated
W_C12 ==
    /\ call.op = "evaluate"
    /\ seven_days(evaluated_history, score_is_75)
    /\ achievement(achievements, "perfect_week").unlocked

attended_all(d) ==
    /\ d.classes_total.t = "val" /\ d.classes_total.v > 0
    /\ d.classes_attended = d.classes_total

\* C13: an evaluation unlocks study_buddy exactly when the history holds 7
\* records and each of the 7 most recent has classes_total > 0 and
\* classes_attended = classes_total.
C13_StudyBuddy ==
    call.op = "evaluate" =>
        (achievement(achievements, "study_buddy").unlocked
            <=> seven_days(evaluated_history, attended_all))

\* study_buddy is unlocked on the 7 most recent of 8 days, the oldest of
\* them a day without classes
W_C13 ==
    /\ call.op = "evaluate"
    /\ achievement(achievements, "study_buddy").unlocked
    /\ \E d \in wellness : d.date.v = 1 /\ d.classes_total.v = 0
    /\ Cardinality(wellness) = 8

steps_at_least_5000(d) == d.step_count.t = "val" /\ d.step_count.v >= 5000

\* C14: an evaluation unlocks fitness_streak exactly when the history holds
\* 7 records and each of the 7 most recent has step_count >= 5000.
C14_FitnessStreak ==
    call.op = "evaluate" =>
        (achievement(achievements, "fitness_streak").unlocked
            <=> seven_days(evaluated_history, steps_at_least_5000))

\* fitness_streak is unlocked on a week with a day of exactly 5000 steps
W_C14 ==
    /\ call.op = "evaluate"
    /\ achievement(achievements, "fitness_streak").unlocked
    /\ \E i \in 1..Len(evaluated_history) : evaluated_history[i].step_count = Val(5000)

\* C15: an evaluation unlocks step_master exactly when some record of the
\* evaluated history, wherever it stands, has step_count >= 10000.
C15_StepMaster ==
    call.op = "evaluate" =>
        (achievement(achievements, "step_master").unlocked
            <=> \E i \in 1..Len(evaluated_history) :
                    /\ evaluated_history[i].step_count.t = "val"
                    /\ evaluated_history[i].step_count.v >= 10000)

\* step_master is unlocked by the oldest of seven evaluated days alone
W_C15 ==
    /\ call.op = "evaluate"
    /\ achievement(achievements, "step_master").unlocked
    /\ Len(evaluated_history) = 7
    /\ \A i \in 1..6 : evaluated_history[i].step_count.v < 10000
    /\ evaluated_history[7].step_count.v >= 10000

\* most recent first
sorted_descending(history) ==
    \A i \in 1..(Len(history) - 1) : history[i].date.v > history[i + 1].date.v

claimed_sleep(sleep_hours) ==
    IF sleep_hours.t # "val" THEN 0
    ELSE IF 70 <= sleep_hours.v /\ sleep_hours.v <= 90 THEN 30
    ELSE IF 60 <= sleep_hours.v /\ sleep_hours.v <= 100 THEN 15
    ELSE -10

\* neither steps nor classes nor active minutes give points
sleep_only(wellness_data) ==
    \A f \in {"step_count", "active_minutes", "classes_total", "classes_attended"} :
        wellness_data[f] \in {Absent, Val(0)}

\* C17: on a record whose only points are those of sleep, the score is 50
\* plus 30 for sleep_hours in [7,9], plus 15 otherwise in [6,10], minus 10
\* for any other value that is present, and 50 when sleep_hours is null.
C17_SleepContribution ==
    (call.op = "score" /\ sleep_only(call.wellness_data)) =>
        /\ ~call.result.raised
        /\ call.result.value = 50 + claimed_sleep(call.wellness_data.sleep_hours)

\* the points the claim gives for steps, attendance and active minutes
claimed_steps(n) == IF n >= 10000 THEN 25 ELSE IF n >= 5000 THEN 15 ELSE IF n >= 2000 THEN 5 ELSE 0

claimed_attendance(attended, total) ==
    IF total = 0 THEN 0
    ELSE IF 10 * attended >= 9 * total THEN 25
    ELSE IF 10 * attended >= 7 * total THEN 15
    ELSE IF 2 * attended >= total THEN 5
    ELSE 0

claimed_active(n) == IF n >= 30 THEN 20 ELSE IF n >= 15 THEN 10 ELSE 0

\* no sleep_hours; steps, active minutes and classes are numbers, attended <= total
without_sleep(wellness_data) ==
    /\ wellness_data.sleep_hours.t # "val"
    /\ \A f \in {"step_count", "active_minutes", "classes_total", "classes_attended"} :
            wellness_data[f].t = "val" /\ wellness_data[f].v >= 0
    /\ wellness_data.classes_attended.v <= wellness_data.classes_total.v

\* C18: without sleep_hours the score is min(100, 50 + steps tier
\* + attendance tier + active tier).
C18_TiersWithoutSleep ==
    (call.op = "score" /\ without_sleep(call.wellness_data)) =>
        /\ ~call.result.raised
        /\ call.result.value =
                Min(100, 50 + claimed_steps(call.wellness_data.step_count.v)
                            + claimed_attendance(call.wellness_data.classes_attended.v,
                                                 call.wellness_data.classes_total.v)
                            + claimed_active(call.wellness_data.active_minutes.v))

\* 7 of 10 classes, 5000 steps and 15 minutes: 50 + 15 + 15 + 10
W_C18 ==
    /\ call.op = "score" /\ without_sleep(call.wellness_data)
    /\ call.wellness_data.classes_total = Val(10)
    /\ call.wellness_data.classes_attended = Val(7)
    /\ call.wellness_data.step_count = Val(5000)
    /\ call.wellness_data.active_minutes = Val(15)
    /\ call.result.value = 90

achievement_ids(coll) == {a.achievement_id : a \in coll}

one_per_id(coll) == \A a, b \in coll : a.achievement_id = b.achievement_id => a = b

fresh_achievements == {new_achievement(id) : id \in ACHIEVEMENT_IDS}

\* C19: there is never a second record for an achievement id; an
\* initialisation (from the rewards page, or the one the next sync begins
\* with) leaves every existing record as it is and adds only records with
\* unlocked false, no unlocked_date and progress 0, one for each of the 7
\* ids when it runs to its end.
C19_InitNonDestructive ==
    [][/\ one_per_id(achievements')
       /\ achievements \subseteq
            initialize_user_achievements(new_ctx(wellness, achievements, streak),
                                         NoFailure).achievements
       /\ call'.op = "rewards" =>
            /\ achievements \subseteq achievements'
            /\ (achievements' \ achievements) \subseteq fresh_achievements
            /\ ~call'.failed => achievement_ids(achievements') = ACHIEVEMENT_IDS
       /\ (call'.op = "sync" /\ call'.success) =>
            achievement_ids(achievements') = ACHIEVEMENT_IDS]_vars

\* the rewards page has initialised over achievements that are unlocked
\* and have progress
W_C19 ==
    /\ call.op = "rewards" /\ ~call.failed
    /\ achievement_ids(achievements) = ACHIEVEMENT_IDS
    /\ \E a \in achievements : a.unlocked /\ a.progress > 0 /\ a.unlocked_date.t = "val"

last_day(days) == CHOOSE d \in days : \A e \in days : e <= d

\* the number of consecutive days of `days` that end at day d
days_in_a_row(days, d) == Cardinality({k \in 1..d : \A j \in k..d : j \in days})

\* C20: after syncs made one after another over the days, the stored
\* current_streak is the number of consecutive calendar days, ending at the
\* day of the most recent successful sync, on each of which at least one
\* sync succeeded (and nothing is stored before the first successful sync).
C20_StreakMeaning ==
    IF obs.ok_days = {}
    THEN streak = {}
    ELSE current_of(streak) = days_in_a_row(obs.ok_days, last_day(obs.ok_days))

\* a streak of two days that follows a day whose only syncs failed after
\* they had saved the day's record, itself after a day with a successful sync
W_C20 ==
    /\ current_of(streak) = 2
    /\ \E d \in 2..(day - 2) :
            /\ d \notin obs.ok_days
            /\ d - 1 \in obs.ok_days
            /\ get_wellness_data(wellness, d) # {}
            /\ {d + 1, d + 2} \subseteq obs.ok_days

\* the record a sync of the day computes from what the providers gave it
todays_record(fitness_data, attendance_data, now) ==
    LET combined == combine(fitness_data, attendance_data, now)
    IN  [combined EXCEPT !.balance_score = Val(calculate_balance_score(combined).value)]

\* C21: within one sync the score is computed, then today's record saved,
\* then the achievements evaluated, then the streak updated: whenever a sync
\* has touched the achievements, the history it read begins with today's
\* record, which carries the score just computed; and whenever a sync has
\* written the streak, the evaluation has run to its end without error over
\* the saved records.
C21_StepOrder ==
    [][call'.op = "sync" =>
        LET history == get_wellness_history(wellness', HISTORY_DAYS)
            record == todays_record(call'.fitness_data, call'.attendance_data, day)
        IN  /\ achievements' # achievements =>
                /\ history # <<>>
                /\ history[1].date = Val(day)
                /\ history[1].balance_score.t = "val"
                /\ history[1].balance_score = record.balance_score
                /\ history[1] = CHOOSE d \in save_wellness_data({}, record, day) : TRUE
            /\ streak' # streak =>
                /\ call'.success
                /\ get_wellness_data(wellness', day) = save_wellness_data({}, record, day)
                /\ achievements' =
                     update_achievements(new_ctx(wellness', achievements, streak),
                                         NoFailure, day).achievements]_vars

\* a sync has saved the day's record, unlocked an achievement from it and
\* then started the streak
W_C21 ==
    /\ call.op = "sync" /\ call.success
    /\ call.streak_before = {} /\ current_of(streak) = 1
    /\ \E a \in achievements : a.unlocked /\ a.unlocked_date = Val(day)
    /\ get_wellness_data(wellness, day) # {}

\* C22: a sync that returns None leaves the user's stored wellness records,
\* achievements and streak as they were before it started.
C22_FailureAllOrNothing ==
    [][(call'.op = "sync" /\ ~call'.success) =>
        /\ wellness' = wellness
        /\ achievements' = achievements
        /\ streak' = streak]_vars

\* sync p completes its write in this step
writes_streak(p) == procs[p].pc = "write" /\ procs'[p].pc = "idle"

\* C23: under every interleaving of the reads and writes of concurrent
\* syncs of one user, midnight falling anywhere, the stored longest_streak
\* never decreases, and a write that changes the stored streak was computed
\* from the streak stored at that moment, not from an older read that a
\* completed sync has since overwritten.
C23_NoLostStreakWrite ==
    [][/\ longest_of(streak') >= longest_of(streak)
       /\ \A p \in Syncs :
            (writes_streak(p) /\ streak' # streak) => procs[p].found = streak]_vars

\* C24: once an achievement is unlocked, no later sync or initialisation
\* changes its stored unlocked_date, also when the unlock condition holds
\* again; and unlocked_date is non-null exactly when unlocked is true.
C24_UnlockDateStable ==
    [][/\ \A a \in achievements :
            a.unlocked =>
                \E b \in achievements' :
                    /\ b.achievement_id = a.achievement_id
                    /\ b.unlocked_date = a.unlocked_date
       /\ \A b \in achievements' : b.unlocked <=> b.unlocked_date.t = "val"]_vars

\* C25: after every dashboard render the session's cached_mood is its mood
\* (both unset, or cached_mood the mood the page used) and the suggestions
\* rendered were generated for that mood; and the first
\* render after a change_mood or a successful sync_data regenerates the
\* suggestions and leaves force_regenerate cleared.
C25_SuggestionCache ==
    [][call'.op = "dashboard" =>
        /\ session'.cached_mood \in {session'.mood, session_mood(session')}
        /\ \A g \in call'.suggestions : g.mood = session_mood(session')
        /\ obs.pending => (call'.regenerated /\ ~session'.force_regenerate)]_vars

====
